---- MODULE Spec2Model ----
(***************************************************************************)
(* Vote extraction from chat transcripts: the three parse_votes scans      *)
(* (parser-tg.py, parser-vk.py, parser.py) and the parse_date normalizer.  *)
(*                                                                         *)
(* Text is modelled character by character: a string is a sequence of      *)
(* one-character strings.  A Cyrillic letter is written as "_" followed by *)
(* its Latin transliteration ("_m" for the letter em, "_P" for capital pe) *)
(* because the module text is ASCII; the renaming is one-to-one, and the   *)
(* regular expressions of the source only compare characters.              *)
(* Cursors are 0-based as in the source; line k of the source is           *)
(* lines[k + 1] here.                                                      *)
(***************************************************************************)
EXTENDS Integers, Sequences, FiniteSets, TLC

VARIABLES
    prog,       \* which script runs: "tg" (parser-tg.py) or "vk" (parser.py, then parser-vk.py)
    file,       \* the transcript as read: one entry per line, newline removed
    pc,         \* position in the running parse_votes
    i,          \* outer cursor of the running scan
    j,          \* parser-vk.py: the comment cursor
    username,   \* group(1) of the voter match being processed
    block,      \* parser.py: the block collected for the current voter
    records,    \* records of parser-tg.py / parser-vk.py
    lrecords,   \* records of parser.py
    normed,     \* column 'Data i vremya (Excel)': parse_date of each raw date
    dates,      \* column 'Data': the date-only prefix of each normalized time
    err,        \* the exception parse_votes ended with, "" if none
    clock,      \* the system clock, in minutes since 00:00 of day ordinal 0
    ypad        \* whether the platform's strftime pads %Y to four digits

vars == <<prog, file, pc, i, j, username, block, records, lrecords, normed, dates, err, clock, ypad>>

(***************************************************************************)
(* Bounds of the model.                                                    *)
(***************************************************************************)
MaxLinesA == 3      \* longest Layout-A transcript
MaxLinesB == 5      \* longest Layout-B transcript over PoolB
MaxLinesBx == 3     \* longest Layout-B transcript over PoolB and PoolBx
MaxTicks == 2       \* minutes the clock may advance during one run
MaxRecs == 2        \* records of a frame whose normalization is examined alone

(***************************************************************************)
(* Characters and strings.                                                 *)
(***************************************************************************)
Digits == <<"0", "1", "2", "3", "4", "5", "6", "7", "8", "9">>

IsDigit(c) == \E n \in 1..10 : Digits[n] = c

DigitVal(c) == (CHOOSE n \in 1..10 : Digits[n] = c) - 1

\* str.isspace for the characters of the model
IsSpace(c) == c \in {" ", "\t"}

\* int() of a run of decimal digits
RECURSIVE int(_)
int(s) == IF s = <<>> THEN 0
          ELSE 10 * int(SubSeq(s, 1, Len(s) - 1)) + DigitVal(s[Len(s)])

RECURSIVE LStrip(_)
LStrip(s) == IF s # <<>> /\ IsSpace(Head(s)) THEN LStrip(Tail(s)) ELSE s

RECURSIVE RStrip(_)
RStrip(s) == IF s # <<>> /\ IsSpace(s[Len(s)]) THEN RStrip(SubSeq(s, 1, Len(s) - 1)) ELSE s

\* str.strip()
Strip(s) == RStrip(LStrip(s))

LowerMap == ("A" :> "a") @@ ("B" :> "b") @@ ("_S" :> "_s") @@ ("_V" :> "_v")
            @@ ("_P" :> "_p") @@ ("_M" :> "_m") @@ ("_Ch" :> "_ch") @@ ("_D" :> "_d")
            @@ ("_T" :> "_t") @@ ("_Ya" :> "_ya") @@ ("_G" :> "_g")

LowerChar(c) == IF c \in DOMAIN LowerMap THEN LowerMap[c] ELSE c

\* str.lower(), for the capital letters the transcripts of the model use
Lower(s) == [k \in 1..Len(s) |-> LowerChar(s[k])]

\* s[k:k+len(p)] == p, k 1-based
MatchAt(s, p, k) == k >= 1 /\ k + Len(p) - 1 <= Len(s) /\ SubSeq(s, k, k + Len(p) - 1) = p

\* str.startswith
StartsWith(s, p) == MatchAt(s, p, 1)

\* p in s
Contains(s, p) == \E k \in 1..(Len(s) - Len(p) + 1) : MatchAt(s, p, k)

\* s[k] exists and is a digit
DigitAt(s, k) == k >= 1 /\ k <= Len(s) /\ IsDigit(s[k])

\* s[k] exists and is the character c
CharAt(s, c, k) == k >= 1 /\ k <= Len(s) /\ s[k] = c

\* the least element of a non-empty set of integers
Min(S) == CHOOSE x \in S : \A y \in S : x <= y

NoMatch == [m |-> FALSE, g1 |-> <<>>, g2 |-> <<>>]

(***************************************************************************)
(* The regular expressions of the three parse_votes.                       *)
(***************************************************************************)
\* number_re written as ([0-9][0-9]?): a leading zero is accepted
number_re_search_zero(s) ==
    LET starts == {k \in 1..Len(s) : IsDigit(s[k])}
    IN  IF starts = {} THEN NoMatch
        ELSE LET p == Min(starts)
             IN  [m |-> TRUE,
                  g1 |-> IF DigitAt(s, p + 1) THEN SubSeq(s, p, p + 1) ELSE SubSeq(s, p, p),
                  g2 |-> <<>>]

\* number_re = ([1-9][0-9]?), used with .search: the leftmost non-zero digit,
\* together with the digit that follows it, if one does
number_re_search(s) ==
    LET starts == {k \in 1..Len(s) : IsDigit(s[k]) /\ s[k] # "0"}
    IN  IF starts = {} THEN NoMatch
        ELSE LET p == Min(starts)
             IN  [m |-> TRUE,
                  g1 |-> IF DigitAt(s, p + 1) THEN SubSeq(s, p, p + 1) ELSE SubSeq(s, p, p),
                  g2 |-> <<>>]

\* \d{1,2}:\d{2} at position k; the length of the hour field, 0 if no match
TimeLenAt(s, k) ==
    IF DigitAt(s, k) /\ DigitAt(s, k + 1) /\ CharAt(s, ":", k + 2)
       /\ DigitAt(s, k + 3) /\ DigitAt(s, k + 4) THEN 2
    ELSE IF DigitAt(s, k) /\ CharAt(s, ":", k + 1)
            /\ DigitAt(s, k + 2) /\ DigitAt(s, k + 3) THEN 1
    ELSE 0

\* \d{2}\.\d{2}\.\d{4} at position k
DayMonthYearAt(s, k) ==
    /\ DigitAt(s, k) /\ DigitAt(s, k + 1) /\ CharAt(s, ".", k + 2)
    /\ DigitAt(s, k + 3) /\ DigitAt(s, k + 4) /\ CharAt(s, ".", k + 5)
    /\ DigitAt(s, k + 6) /\ DigitAt(s, k + 7) /\ DigitAt(s, k + 8) /\ DigitAt(s, k + 9)

\* header_re = ^(.+), \[(\d{2}\.\d{2}\.\d{4} \d{1,2}:\d{2})\]$ used with .match:
\* the bracketed date ends the line, so the greedy (.+) is everything before
\* the ", [" that opens it
header_re_match(s) ==
    LET n == Len(s)
        q(h) == n - 17 - h     \* position of the "," when the hour has h digits
        Fits(h) == /\ q(h) >= 2
                   /\ MatchAt(s, <<",", " ", "[">>, q(h))
                   /\ DayMonthYearAt(s, q(h) + 3)
                   /\ CharAt(s, " ", q(h) + 13)
                   /\ TimeLenAt(s, q(h) + 14) = h
                   /\ CharAt(s, "]", n)
        Groups(h) == [m |-> TRUE, g1 |-> SubSeq(s, 1, q(h) - 1), g2 |-> SubSeq(s, q(h) + 3, n - 1)]
    IN  IF Fits(1) THEN Groups(1) ELSE IF Fits(2) THEN Groups(2) ELSE NoMatch

\* position of the first "]" of s after position k, 0 if there is none
FirstClose(s, k) ==
    LET closes == {e \in (k + 1)..Len(s) : s[e] = "]"}
    IN  IF closes = {} THEN 0 ELSE Min(closes)

LinkHead == <<"]","(","h","t","t","p","s",":","/","/","v","k",".","c","o","m","/">>

\* user_link_re = \[([^\]]+)\]\(https://vk\.com/[^)]+\) used with .search:
\* the leftmost "[" whose text up to the next "]" is not empty and is followed
\* by "](https://vk.com/", one or more characters other than ")", and ")"
user_link_re_search(s) ==
    LET Fits(k) == LET e == FirstClose(s, k)
                       u == e + Len(LinkHead)
                   IN  /\ s[k] = "["
                       /\ e > k + 1
                       /\ MatchAt(s, LinkHead, e)
                       /\ u <= Len(s) /\ s[u] # ")"
                       /\ \E c \in (u + 1)..Len(s) : s[c] = ")"
        starts == {k \in 1..Len(s) : Fits(k)}
    IN  IF starts = {} THEN NoMatch
        ELSE [m |-> TRUE,
              g1 |-> SubSeq(s, Min(starts) + 1, FirstClose(s, Min(starts)) - 1),
              g2 |-> <<>>]

\* re.match(r"\[([^]]+)\]\(", s), the date line of parser-vk.py
date_link_match(s) ==
    LET e == FirstClose(s, 1)
    IN  IF CharAt(s, "[", 1) /\ e > 2 /\ CharAt(s, "(", e + 1)
        THEN [m |-> TRUE, g1 |-> SubSeq(s, 2, e - 1), g2 |-> <<>>]
        ELSE NoMatch

MonthStems == {<<"_ya","_n","_v">>, <<"_f","_e","_v">>, <<"_m","_a","_r">>, <<"_a","_p","_r">>, <<"_m","_a","_j">>, <<"_i","_yu","_n">>, <<"_i","_yu","_l">>, <<"_a","_v","_g">>, <<"_s","_e","_n">>, <<"_o","_k","_t">>, <<"_n","_o","_ya">>, <<"_d","_e","_k">>}

\* date_re = \[(\d{1,2} (?:yanv|...|dek) v \d{1,2}:\d{2})\] with re.IGNORECASE,
\* used with .search (parser.py)
date_re_search(s) ==
    LET l == Lower(s)
        End(k) ==       \* position of the closing "]" of a match that starts at k, 0 if none
            LET n == IF DigitAt(s, k + 1) /\ DigitAt(s, k + 2) THEN 2
                     ELSE IF DigitAt(s, k + 1) THEN 1 ELSE 0
                p == k + n + 2      \* position of the month stem
                t == p + 6          \* position of the time
            IN  IF /\ s[k] = "["
                   /\ n >= 1
                   /\ CharAt(s, " ", k + n + 1)
                   /\ p + 2 <= Len(s) /\ SubSeq(l, p, p + 2) \in MonthStems
                   /\ MatchAt(l, <<" ","_v"," ">>, p + 3)
                   /\ TimeLenAt(s, t) > 0
                   /\ CharAt(s, "]", t + TimeLenAt(s, t) + 3)
                THEN t + TimeLenAt(s, t) + 3
                ELSE 0
        starts == {k \in 1..Len(s) : End(k) > 0}
    IN  IF starts = {} THEN NoMatch
        ELSE [m |-> TRUE, g1 |-> SubSeq(s, Min(starts) + 1, End(Min(starts)) - 1), g2 |-> <<>>]

show_votes_marker == <<"_P","_o","_k","_a","_z","_a","_t","_q"," ","_s","_p","_i","_s","_o","_k"," ","_o","_c","_e","_n","_i","_v","_sh","_i","_h">>

(***************************************************************************)
(* datetime, timedelta and strftime, as far as parse_date uses them.  An   *)
(* instant is a number of minutes since 00:00 of day ordinal 0 (ordinal 1  *)
(* is 01.01.0001); seconds never reach the formatted result.               *)
(***************************************************************************)
IsLeap(y) == y % 4 = 0 /\ (y % 100 # 0 \/ y % 400 = 0)

DaysInMonth(y, mo) ==
    IF mo = 2 THEN (IF IsLeap(y) THEN 29 ELSE 28)
    ELSE IF mo \in {4, 6, 9, 11} THEN 30 ELSE 31

DaysBeforeYear(y) == (y - 1) * 365 + (y - 1) \div 4 - (y - 1) \div 100 + (y - 1) \div 400

RECURSIVE DaysBeforeMonth(_, _)
DaysBeforeMonth(y, mo) ==
    IF mo = 1 THEN 0 ELSE DaysBeforeMonth(y, mo - 1) + DaysInMonth(y, mo - 1)

\* datetime(year, month, day, hour, minute) raises ValueError outside these ranges
DatetimeOk(y, mo, d, h, mi) ==
    /\ y >= 1 /\ y <= 9999
    /\ mo >= 1 /\ mo <= 12
    /\ d >= 1 /\ d <= DaysInMonth(y, mo)
    /\ h >= 0 /\ h <= 23
    /\ mi >= 0 /\ mi <= 59

ToMinutes(dt) ==
    (DaysBeforeYear(dt.year) + DaysBeforeMonth(dt.year, dt.month) + dt.day) * 1440
    + dt.hour * 60 + dt.minute

\* the calendar date of a day ordinal
Ord2Ymd(ord) ==
    LET n0 == ord - 1
        n400 == n0 \div 146097
        r400 == n0 % 146097
        n100 == r400 \div 36524
        r100 == r400 % 36524
        n4 == r100 \div 1461
        r4 == r100 % 1461
        n1 == r4 \div 365
        r1 == r4 % 365
        y == n400 * 400 + 1 + n100 * 100 + n4 * 4 + n1
    IN  IF n1 = 4 \/ n100 = 4 THEN [year |-> y - 1, month |-> 12, day |-> 31]
        ELSE LET mo == CHOOSE x \in 1..12 :
                           /\ DaysBeforeMonth(y, x) <= r1
                           /\ r1 < DaysBeforeMonth(y, x) + DaysInMonth(y, x)
             IN  [year |-> y, month |-> mo, day |-> r1 - DaysBeforeMonth(y, mo) + 1]

FromMinutes(t) ==
    LET ymd == Ord2Ymd(t \div 1440)
    IN  [year |-> ymd.year, month |-> ymd.month, day |-> ymd.day,
         hour |-> (t % 1440) \div 60, minute |-> t % 60]

\* %d, %m, %H, %M: two digits, zero-padded
D2(n) == <<Digits[((n \div 10) % 10) + 1], Digits[(n % 10) + 1]>>

\* the decimal digits of a natural number, without padding
RECURSIVE Str(_)
Str(n) == IF n < 10 THEN <<Digits[n + 1]>> ELSE Str(n \div 10) \o <<Digits[(n % 10) + 1]>>

\* %Y: four digits for years from 1000 on; below, padded or not by the platform
Y4(y, pad) == IF pad THEN D2(y \div 100) \o D2(y % 100) ELSE Str(y)

\* dt.strftime('%d.%m.%Y %H:%M')
Strftime(dt, pad) ==
    D2(dt.day) \o <<".">> \o D2(dt.month) \o <<".">> \o Y4(dt.year, pad)
    \o <<" ">> \o D2(dt.hour) \o <<":">> \o D2(dt.minute)

Ok(v) == [err |-> "", val |-> v]

Raise(e) == [err |-> e, val |-> <<>>]

\* (now - timedelta(minutes=n)).strftime(...); OverflowError before 01.01.0001
Ago(now, n, pad) ==
    IF now - n < 1440 THEN Raise("OverflowError")
    ELSE Ok(Strftime(FromMinutes(now - n), pad))

\* base.replace(hour=h, minute=mi, second=0, microsecond=0).strftime(...)
ReplaceTime(base, h, mi, pad) ==
    IF base < 1440 THEN Raise("OverflowError")
    ELSE IF h > 23 \/ mi > 59 THEN Raise("ValueError")
    ELSE Ok(Strftime([FromMinutes(base) EXCEPT !.hour = h, !.minute = mi], pad))

\* MakeDate without the range checks of the datetime constructor
MakeDate_unchecked(y, mo, d, h, mi, pad) ==
    Ok(Strftime([year |-> y, month |-> mo, day |-> d, hour |-> h, minute |-> mi], pad))

\* datetime(y, mo, d, h, mi).strftime(...)
MakeDate(y, mo, d, h, mi, pad) ==
    IF DatetimeOk(y, mo, d, h, mi)
    THEN Ok(Strftime([year |-> y, month |-> mo, day |-> d, hour |-> h, minute |-> mi], pad))
    ELSE Raise("ValueError")

(***************************************************************************)
(* parse_date.                                                             *)
(***************************************************************************)
\* length of the run of digits of s that starts at position k
RECURSIVE DigitRun(_, _)
DigitRun(s, k) == IF DigitAt(s, k) THEN 1 + DigitRun(s, k + 1) ELSE 0

\* length of the run of whitespace of s that starts at position k
RECURSIVE SpaceRun(_, _)
SpaceRun(s, k) == IF k >= 1 /\ k <= Len(s) /\ IsSpace(s[k]) THEN 1 + SpaceRun(s, k + 1) ELSE 0

\* re.match(r"(\d+)\s+<word>", s): the digits of group(1), <<>> if no match
CountWord(s, word) ==
    LET n == DigitRun(s, 1)
        w == SpaceRun(s, n + 1)
    IN  IF n >= 1 /\ w >= 1 /\ MatchAt(s, word, n + w + 1) THEN SubSeq(s, 1, n) ELSE <<>>

\* (\d{1,2}):(\d{2}) at position k, which TimeLenAt found to match
HourAt(s, k) == int(SubSeq(s, k, k + TimeLenAt(s, k) - 1))

MinuteAt(s, k) == int(SubSeq(s, k + TimeLenAt(s, k) + 1, k + TimeLenAt(s, k) + 2))

textual_map ==
    (<<"_ch","_a","_s"," ","_n","_a","_z","_a","_d">> :> 1)
    @@ (<<"_d","_v","_a"," ","_ch","_a","_s","_a"," ","_n","_a","_z","_a","_d">> :> 2)
    @@ (<<"_t","_r","_i"," ","_ch","_a","_s","_a"," ","_n","_a","_z","_a","_d">> :> 3)

mon_map ==
    (<<"_ya","_n","_v">> :> 1) @@ (<<"_f","_e","_v">> :> 2) @@ (<<"_m","_a","_r">> :> 3)
    @@ (<<"_a","_p","_r">> :> 4) @@ (<<"_m","_a","_j">> :> 5) @@ (<<"_i","_yu","_n">> :> 6)
    @@ (<<"_i","_yu","_l">> :> 7) @@ (<<"_a","_v","_g">> :> 8) @@ (<<"_s","_e","_n">> :> 9)
    @@ (<<"_o","_k","_t">> :> 10) @@ (<<"_n","_o","_ya">> :> 11) @@ (<<"_d","_e","_k">> :> 12)

\* re.match(r"(\d{1,2})\s+(yanv|...|dek) v (\d{1,2}):(\d{2})", s):
\* [m, d: digits of the day, mon: the month stem, t: position of the time]
MonthMatch(s) ==
    LET n == IF DigitAt(s, 1) /\ DigitAt(s, 2) THEN 2 ELSE IF DigitAt(s, 1) THEN 1 ELSE 0
        w == SpaceRun(s, n + 1)
        p == n + w + 1
    IN  IF /\ n >= 1 /\ w >= 1
           /\ p + 2 <= Len(s) /\ SubSeq(s, p, p + 2) \in DOMAIN mon_map
           /\ MatchAt(s, <<" ","_v"," ">>, p + 3)
           /\ TimeLenAt(s, p + 6) > 0
        THEN [m |-> TRUE, d |-> SubSeq(s, 1, n), mon |-> SubSeq(s, p, p + 2), t |-> p + 6]
        ELSE [m |-> FALSE, d |-> <<>>, mon |-> <<>>, t |-> 0]

Today == <<"_s","_e","_g","_o","_d","_n","_ya"," ","_v"," ">>

Yesterday == <<"_v","_ch","_e","_r","_a"," ","_v"," ">>

\* the part of parse_date both scripts share (parser-vk.py lines 23-64,
\* parser-tg.py lines 32-79): the relative forms and the fallback
parse_date_rel(raw, raw_l, now, pad) ==
    IF CountWord(raw_l, <<"_m","_i","_n","_u","_t">>) # <<>>
    THEN Ago(now, int(CountWord(raw_l, <<"_m","_i","_n","_u","_t">>)), pad)
    ELSE IF raw_l \in DOMAIN textual_map
    THEN Ago(now, textual_map[raw_l] * 60, pad)
    ELSE IF CountWord(raw_l, <<"_ch","_a","_s">>) # <<>>
    THEN Ago(now, int(CountWord(raw_l, <<"_ch","_a","_s">>)) * 60, pad)
    ELSE IF StartsWith(raw_l, Today) /\ TimeLenAt(raw_l, Len(Today) + 1) > 0
    THEN ReplaceTime(now, HourAt(raw_l, Len(Today) + 1), MinuteAt(raw_l, Len(Today) + 1), pad)
    ELSE IF StartsWith(raw_l, Yesterday) /\ TimeLenAt(raw_l, Len(Yesterday) + 1) > 0
    THEN ReplaceTime(now - 1440, HourAt(raw_l, Len(Yesterday) + 1),
                     MinuteAt(raw_l, Len(Yesterday) + 1), pad)
    ELSE IF MonthMatch(raw_l).m
    THEN LET mm == MonthMatch(raw_l)
         IN  MakeDate(FromMinutes(now).year, mon_map[mm.mon], int(mm.d),
                      HourAt(raw_l, mm.t), MinuteAt(raw_l, mm.t), pad)
    ELSE Ok(raw)

\* parser-vk.py parse_date; now is the clock as sampled inside the call
parse_date_vk(raw, now, pad) ==
    IF raw = <<>> THEN Ok(<<>>)
    ELSE parse_date_rel(raw, Strip(Lower(raw)), now, pad)

\* re.match(r"(\d{2})\.(\d{2})\.(\d{4})\s+(\d{1,2}):(\d{2})", s):
\* the position of the time, 0 if no match
AbsMatch(s) ==
    LET w == SpaceRun(s, 11)
    IN  IF DayMonthYearAt(s, 1) /\ w >= 1 /\ TimeLenAt(s, 11 + w) > 0 THEN 11 + w ELSE 0

\* parser-tg.py parse_date
parse_date_tg(raw, now, pad) ==
    IF raw = <<>> THEN Ok(<<>>)
    ELSE LET raw_l == Strip(Lower(raw))
             t == AbsMatch(raw_l)
         IN  IF t > 0
             THEN MakeDate(int(SubSeq(raw_l, 7, 10)), int(SubSeq(raw_l, 4, 5)),
                           int(SubSeq(raw_l, 1, 2)), HourAt(raw_l, t), MinuteAt(raw_l, t), pad)
             ELSE parse_date_rel(raw, raw_l, now, pad)

\* lambda x: x.split(' ')[0] if ' ' in x else x
RECURSIVE VoteDate(_)
VoteDate(x) ==
    IF x = <<>> \/ Head(x) = " " THEN <<>> ELSE <<Head(x)>> \o VoteDate(Tail(x))

(***************************************************************************)
(* The transcripts and clocks the model is run on.                         *)
(***************************************************************************)
\* lines of a Layout-A transcript: two headers (one with a date that is no
\* calendar date, one with surrounding whitespace), and comments with a
\* number, with a run of three digits and with no number from 1 to 99
PoolA == {
    <<"A","l","i","c","e",","," ","[","0","1",".","0","2",".","2","0","2","4"," ","1","0",":","0","0","]">>,
    <<"_ya"," ","_z","_a"," ","_u","_ch","_a","_s","_t","_n","_i","_k","_a"," ","7">>,
    <<"B","o","b",","," ","[","3","1",".","0","2",".","2","0","2","4"," ","9",":","0","5","]">>,
    <<"_g","_o","_l","_o","_s"," ","1","2","3">>,
    <<"_n","_e","_t"," ","0">>,
    <<" ","E","v","e",","," ","[","2","9",".","0","2",".","2","0","2","4"," ","2","3",":","5","9","]">>
}

\* lines of a Layout-B transcript: a voter link, a comment with a number, a
\* blank line, an image line (which holds a link), the marker line and a
\* date line
PoolB == {
    <<"[","A","]","(","h","t","t","p","s",":","/","/","v","k",".","c","o","m","/","a",")">>,
    <<"_g","_o","_l","_o","_s"," ","1","2">>,
    <<>>,
    <<"!","[","B","]","(","h","t","t","p","s",":","/","/","v","k",".","c","o","m","/","b",")">>,
    <<"_P","_o","_k","_a","_z","_a","_t","_q"," ","_s","_p","_i","_s","_o","_k"," ","_o","_c","_e","_n","_i","_v","_sh","_i","_h">>,
    <<"[","1","5"," ","_m","_a","_r"," ","_v"," ","1","0",":","0","0","]","(","u",")">>
}

\* further lines, used in the shorter transcripts: a comment without a number
\* and an indented empty-link line
PoolBx == {
    <<"_p","_r","_i","_v","_e","_t">>,
    <<" "," ","[","]","(","x",")">>
}

\* raw date phrases of a frame of records
PhrasePool == {
    <<"5"," ","_m","_i","_n","_u","_t"," ","_n","_a","_z","_a","_d">>,
    <<"_d","_v","_a"," ","_ch","_a","_s","_a"," ","_n","_a","_z","_a","_d">>,
    <<"2"," ","_ch","_a","_s","_a"," ","_n","_a","_z","_a","_d">>,
    <<"_s","_e","_g","_o","_d","_n","_ya"," ","_v"," ","0","9",":","0","5">>,
    <<"_v","_ch","_e","_r","_a"," ","_v"," ","2","3",":","5","9">>,
    <<"1","5"," ","_m","_a","_r"," ","_v"," ","1","0",":","0","0">>,
    <<"_S","_e","_g","_o","_d","_n","_ya"," ","_v"," ","9",":","0","5">>,
    <<"b","l","a","h"," ","b","l","a","h">>,
    <<>>
}

\* all sequences over S of length at most n
SeqsUpTo(S, n) == UNION {[1..k -> S] : k \in 0..n}

\* 01.03.2024 00:04 and 31.12.2024 23:58, each just before a minute, hour,
\* day, month or year changes
StartClocks ==
    {ToMinutes([year |-> 2024, month |-> 3, day |-> 1, hour |-> 0, minute |-> 4]),
     ToMinutes([year |-> 2024, month |-> 12, day |-> 31, hour |-> 23, minute |-> 58])}

(***************************************************************************)
(* parser-tg.py parse_votes.                                               *)
(***************************************************************************)
\* lines = [line.strip() for line in f]
lines_tg == [k \in 1..Len(file) |-> Strip(file[k])]

Record(name, num, raw_date) == [name |-> name, num |-> num, raw |-> raw_date]

\* one iteration of the while loop
TG_Step ==
    /\ prog = "tg" /\ pc = "scan"
    /\ i < Len(file)
    /\ LET m == header_re_match(lines_tg[i + 1])
       IN  IF m.m /\ i + 1 < Len(file)
           THEN LET comment == lines_tg[i + 2]
                    num_match == number_re_search(comment)
                IN  /\ records' = IF num_match.m
                                  THEN Append(records, Record(m.g1, int(num_match.g1), m.g2))
                                  ELSE records
                    /\ i' = i + 2
           ELSE /\ i' = i + 1
                /\ UNCHANGED records
    /\ UNCHANGED <<prog, file, pc, j, username, block, lrecords, normed, dates, err, clock, ypad>>

\* df = pd.DataFrame(records); df['Data golosovaniya']: a frame built from an
\* empty list has no columns, and selecting a missing column raises KeyError
Frame(p) ==
    /\ prog = p /\ pc = "scan"
    /\ i >= Len(file)
    /\ IF records = <<>>
       THEN pc' = "error" /\ err' = "KeyError"
       ELSE pc' = "norm" /\ UNCHANGED err
    /\ UNCHANGED <<prog, file, i, j, username, block, records, lrecords, normed, dates, clock, ypad>>

\* .apply(parse_date): one call, on the next row, reading the clock as it is now
Norm(p, res) ==
    /\ prog = p /\ pc = "norm"
    /\ Len(normed) < Len(records)
    /\ IF res.err # ""
       THEN pc' = "error" /\ err' = res.err /\ UNCHANGED normed
       ELSE normed' = Append(normed, res.val) /\ UNCHANGED <<pc, err>>
    /\ UNCHANGED <<prog, file, i, j, username, block, records, lrecords, dates, clock, ypad>>

\* df['Data'] = df['Data i vremya (Excel)'].apply(lambda x: ...); return df
DateCol(p) ==
    /\ prog = p /\ pc = "norm"
    /\ Len(normed) = Len(records)
    /\ dates' = [k \in 1..Len(normed) |-> VoteDate(normed[k])]
    /\ pc' = "done"
    /\ UNCHANGED <<prog, file, i, j, username, block, records, lrecords, normed, err, clock, ypad>>

TG_Frame == Frame("tg")

TG_Norm == Norm("tg", parse_date_tg(records[Len(normed) + 1].raw, clock, ypad))

TG_DateCol == DateCol("tg")

\* the system clock advances between two calls of parse_date
Tick ==
    /\ pc = "norm"
    /\ \E c0 \in StartClocks : clock >= c0 /\ clock < c0 + MaxTicks
    /\ clock' = clock + 1
    /\ UNCHANGED <<prog, file, pc, i, j, username, block, records, lrecords, normed, dates, err, ypad>>

(***************************************************************************)
(* parser.py parse_votes (the dialect with the looser date line).          *)
(***************************************************************************)
\* lines = [line.strip() for line in f]
lines_p == [k \in 1..Len(file) |-> Strip(file[k])]

\* user_link_re.search(line) and not line.startswith('![')
IsVoterLine(line) == user_link_re_search(line).m /\ ~StartsWith(line, <<"!", "[">>)

\* not b or b.startswith('![') or b.startswith('[](')
Skipped(b) == b = <<>> \/ StartsWith(b, <<"!", "[">>) \/ StartsWith(b, <<"[", "]", "(">>)

\* the first loop over block: the number of the first line that is not
\* skipped and holds a number; 0 stands for None
RECURSIVE BlockParticipant(_)
BlockParticipant(blk) ==
    IF blk = <<>> THEN 0
    ELSE IF ~Skipped(Head(blk)) /\ number_re_search(Head(blk)).m
    THEN int(number_re_search(Head(blk)).g1)
    ELSE BlockParticipant(Tail(blk))

\* for later in block[idx+1:]: the first date_re match
RECURSIVE FirstDate(_)
FirstDate(blk) ==
    IF blk = <<>> THEN <<>>
    ELSE IF date_re_search(Head(blk)).m THEN date_re_search(Head(blk)).g1
    ELSE FirstDate(Tail(blk))

\* the second loop over block: the date after the first marker line
RECURSIVE BlockDate(_)
BlockDate(blk) ==
    IF blk = <<>> THEN <<>>
    ELSE IF Contains(Head(blk), show_votes_marker) THEN FirstDate(Tail(blk))
    ELSE BlockDate(Tail(blk))

\* one iteration of the outer while loop, up to the inner loop
P_Outer ==
    /\ prog = "vk" /\ pc = "p_scan"
    /\ i < Len(file)
    /\ IF IsVoterLine(lines_p[i + 1])
       THEN /\ username' = user_link_re_search(lines_p[i + 1]).g1
            /\ block' = <<>>
            /\ pc' = "p_block"
       ELSE UNCHANGED <<username, block, pc>>
    /\ i' = i + 1
    /\ UNCHANGED <<prog, file, j, records, lrecords, normed, dates, err, clock, ypad>>

\* one iteration of the inner while loop
P_Block ==
    /\ prog = "vk" /\ pc = "p_block"
    /\ i < Len(file) /\ ~IsVoterLine(lines_p[i + 1])
    /\ block' = Append(block, lines_p[i + 1])
    /\ i' = i + 1
    /\ UNCHANGED <<prog, file, pc, j, username, records, lrecords, normed, dates, err, clock, ypad>>

\* the rest of the iteration, once the block is collected
P_Extract ==
    /\ prog = "vk" /\ pc = "p_block"
    /\ ~(i < Len(file) /\ ~IsVoterLine(lines_p[i + 1]))
    /\ lrecords' = IF BlockParticipant(block) = 0 THEN lrecords
                   ELSE Append(lrecords, Record(username, BlockParticipant(block), BlockDate(block)))
    /\ pc' = "p_scan"
    /\ UNCHANGED <<prog, file, i, j, username, block, records, normed, dates, err, clock, ypad>>

\* df = pd.DataFrame(records); return df.  parser-vk.py is then run on the
\* same file
P_Return ==
    /\ prog = "vk" /\ pc = "p_scan"
    /\ i >= Len(file)
    /\ pc' = "scan"
    /\ i' = 0
    /\ UNCHANGED <<prog, file, j, username, block, records, lrecords, normed, dates, err, clock, ypad>>

(***************************************************************************)
(* parser-vk.py parse_votes.                                               *)
(***************************************************************************)
\* lines = [line.rstrip('\n') for line in f]
lines_vk == file

\* the condition of the inner while loop, without its bound
SkipLine(l) ==
    Strip(l) = <<>> \/ StartsWith(l, <<"!", "[">>) \/ StartsWith(l, <<"[", "]", "(">>)

\* for k in range(from, len(lines)): the 0-based index of the first line that
\* holds the marker, -1 if the loop ends without one
RECURSIVE MarkerFrom(_, _)
MarkerFrom(ls, k) ==
    IF k >= Len(ls) THEN -1
    ELSE IF Contains(ls[k + 1], show_votes_marker) THEN k
    ELSE MarkerFrom(ls, k + 1)

\* RawDate with the date line taken one line after the marker
RawDate_next(ls, jj) ==
    LET k == MarkerFrom(ls, jj + 1)
        idx == k + 1
    IN  IF k >= 0 /\ idx < Len(ls) /\ date_link_match(Strip(ls[idx + 1])).m
        THEN date_link_match(Strip(ls[idx + 1])).g1
        ELSE <<>>

\* the date search that follows the comment at index jj
RawDate(ls, jj) ==
    LET k == MarkerFrom(ls, jj + 1)
        idx == k + 2
    IN  IF k >= 0 /\ idx < Len(ls) /\ date_link_match(Strip(ls[idx + 1])).m
        THEN date_link_match(Strip(ls[idx + 1])).g1
        ELSE <<>>

\* one iteration of the outer while loop, up to the inner loop
VK_Outer ==
    /\ prog = "vk" /\ pc = "scan"
    /\ i < Len(file)
    /\ LET user_match == user_link_re_search(Strip(lines_vk[i + 1]))
       IN  IF user_match.m
           THEN /\ username' = user_match.g1
                /\ j' = i + 1
                /\ pc' = "skip"
                /\ UNCHANGED i
           ELSE /\ i' = i + 1
                /\ UNCHANGED <<username, j, pc>>
    /\ UNCHANGED <<prog, file, block, records, lrecords, normed, dates, err, clock, ypad>>

\* one iteration of the inner while loop
VK_Skip ==
    /\ prog = "vk" /\ pc = "skip"
    /\ j < Len(file) /\ SkipLine(lines_vk[j + 1])
    /\ j' = j + 1
    /\ UNCHANGED <<prog, file, pc, i, username, block, records, lrecords, normed, dates, err, clock, ypad>>

\* VK_Comment with "i += 1" missing before the first "continue"
VK_Comment_stay ==
    /\ prog = "vk" /\ pc = "skip"
    /\ ~(j < Len(file) /\ SkipLine(lines_vk[j + 1]))
    /\ IF j >= Len(file)
       THEN UNCHANGED <<i, records>>
       ELSE LET comment == Strip(lines_vk[j + 1])
                num_match == number_re_search(comment)
            IN  IF ~num_match.m
                THEN /\ i' = j + 1
                     /\ UNCHANGED records
                ELSE /\ records' = Append(records,
                                          Record(username, int(num_match.g1), RawDate(lines_vk, j)))
                     /\ i' = j + 1
    /\ pc' = "scan"
    /\ UNCHANGED <<prog, file, j, username, block, lrecords, normed, dates, err, clock, ypad>>

\* the rest of the iteration, once the inner loop has ended
VK_Comment ==
    /\ prog = "vk" /\ pc = "skip"
    /\ ~(j < Len(file) /\ SkipLine(lines_vk[j + 1]))
    /\ IF j >= Len(file)
       THEN /\ i' = i + 1
            /\ UNCHANGED records
       ELSE LET comment == Strip(lines_vk[j + 1])
                num_match == number_re_search(comment)
            IN  IF ~num_match.m
                THEN /\ i' = j + 1
                     /\ UNCHANGED records
                ELSE /\ records' = Append(records,
                                          Record(username, int(num_match.g1), RawDate(lines_vk, j)))
                     /\ i' = j + 1
    /\ pc' = "scan"
    /\ UNCHANGED <<prog, file, j, username, block, lrecords, normed, dates, err, clock, ypad>>

VK_Frame == Frame("vk")

VK_Norm == Norm("vk", parse_date_vk(records[Len(normed) + 1].raw, clock, ypad))

VK_DateCol == DateCol("vk")

(***************************************************************************)
(* Specifications.                                                         *)
(***************************************************************************)
Idle ==
    /\ i = 0 /\ j = 0 /\ username = <<>> /\ block = <<>>
    /\ records = <<>> /\ lrecords = <<>> /\ normed = <<>> /\ dates = <<>>
    /\ err = ""

\* parser-tg.py started on a Layout-A transcript
InitTG ==
    /\ prog = "tg" /\ pc = "scan"
    /\ file \in SeqsUpTo(PoolA, MaxLinesA)
    /\ clock \in StartClocks
    /\ ypad \in BOOLEAN
    /\ Idle

\* parser.py started on a Layout-B transcript, parser-vk.py to follow
InitVK ==
    /\ prog = "vk" /\ pc = "p_scan"
    /\ file \in SeqsUpTo(PoolB, MaxLinesB) \cup SeqsUpTo(PoolB \cup PoolBx, MaxLinesBx)
    /\ clock = Min(StartClocks)
    /\ ypad = FALSE
    /\ Idle

Init == InitTG \/ InitVK

NextTG == TG_Step \/ TG_Frame \/ TG_Norm \/ TG_DateCol \/ Tick

NextVK ==
    \/ P_Outer \/ P_Block \/ P_Extract \/ P_Return
    \/ VK_Outer \/ VK_Skip \/ VK_Comment
    \/ VK_Frame \/ VK_Norm \/ VK_DateCol \/ Tick

Next ==
    \/ TG_Step \/ TG_Frame \/ TG_Norm \/ TG_DateCol
    \/ P_Outer \/ P_Block \/ P_Extract \/ P_Return
    \/ VK_Outer \/ VK_Skip \/ VK_Comment
    \/ VK_Frame \/ VK_Norm \/ VK_DateCol \/ Tick

Spec == Init /\ [][Next]_vars

SpecTG == InitTG /\ [][NextTG]_vars

SpecVK == InitVK /\ [][NextVK]_vars

\* a frame of one row, on which parse_date of parser-tg.py is applied: the raw
\* date begins, after optional whitespace, with DD.MM.YYYY, whitespace and
\* H:MM or HH:MM, and may go on with more text
AbsInputs ==
    {lead \o dd \o <<".">> \o mo \o <<".">> \o yyyy \o sep \o hh \o <<":">> \o mi \o trail :
        lead \in {<<>>, <<" ">>},
        dd \in {<<"0", "1">>, <<"2", "9">>, <<"3", "1">>},
        mo \in {<<"0", "2">>, <<"1", "2">>},
        yyyy \in {<<"0", "0", "0", "0">>, <<"0", "9", "9", "9">>,
                  <<"2", "0", "2", "3">>, <<"2", "0", "2", "4">>},
        sep \in {<<" ">>, <<" ", " ">>, <<"\t">>},
        hh \in {<<"9">>, <<"0", "9">>, <<"2", "3">>, <<"2", "4">>},
        mi \in {<<"0", "5">>, <<"6", "0">>},
        trail \in {<<>>, <<" ", "x">>}}

InitDate ==
    /\ prog = "tg" /\ pc = "norm"
    /\ file = <<>>
    /\ i = 0 /\ j = 0 /\ username = <<>> /\ block = <<>>
    /\ \E r \in AbsInputs : records = <<Record(<<"A">>, 7, r)>>
    /\ lrecords = <<>> /\ normed = <<>> /\ dates = <<>>
    /\ err = ""
    /\ clock \in StartClocks
    /\ ypad \in BOOLEAN

NextDate == TG_Norm \/ TG_DateCol \/ Tick

SpecDate == InitDate /\ [][NextDate]_vars

\* the Layout-B transcript of a sequence of date phrases: one voter block per
\* phrase, with the phrase two lines after the marker
RECURSIVE Transcript(_)
Transcript(phrases) ==
    IF phrases = <<>> THEN <<>>
    ELSE << <<"[","A","]","(","h","t","t","p","s",":","/","/","v","k",".","c","o","m","/","a",")">>,
            <<>>,
            <<"_g","_o","_l","_o","_s"," ","1","2">>,
            show_votes_marker,
            <<>>,
            <<"[">> \o Head(phrases) \o <<"]", "(", "u", ")">> >>
         \o Transcript(Tail(phrases))

\* parser.py and parser-vk.py started on the transcript of up to MaxRecs phrases
InitNorm ==
    /\ prog = "vk" /\ pc = "p_scan"
    /\ \E ps \in SeqsUpTo(PhrasePool, MaxRecs) : file = Transcript(ps)
    /\ clock \in StartClocks
    /\ ypad = FALSE
    /\ Idle

SpecNorm == InitNorm /\ [][NextVK]_vars

(***************************************************************************)
(* Vocabulary of the properties, read off the text of the lines.           *)
(***************************************************************************)
Max(S) == CHOOSE x \in S : \A y \in S : x >= y

\* a string with every digit replaced by "d"
Shape(s) == [k \in 1..Len(s) |-> IF IsDigit(s[k]) THEN "d" ELSE s[k]]

\* DD.MM.YYYY H:MM and DD.MM.YYYY HH:MM
AbsShapes ==
    {<<"d", "d", ".", "d", "d", ".", "d", "d", "d", "d", " ", "d", ":", "d", "d">>,
     <<"d", "d", ".", "d", "d", ".", "d", "d", "d", "d", " ", "d", "d", ":", "d", "d">>}

\* the lengths a name can have for the line to read <name>, [<date>]
HeaderNames(l) ==
    {q \in 1..Len(l) :
        \E d \in {SubSeq(l, q + 4, Len(l) - 1)} :
            /\ Shape(d) \in AbsShapes
            /\ l = SubSeq(l, 1, q) \o <<",", " ", "[">> \o d \o <<"]">>}

\* the occurrences <<position, value>> of a number from 1 to 99 written with
\* one or two digits, the first of them not "0"
Numbers(s) ==
    {pv \in (1..Len(s)) \X (1..99) :
        \/ pv[2] < 10 /\ SubSeq(s, pv[1], pv[1]) = Str(pv[2]) /\ ~DigitAt(s, pv[1] + 1)
        \/ pv[2] >= 10 /\ pv[1] < Len(s) /\ SubSeq(s, pv[1], pv[1] + 1) = Str(pv[2])}

\* the value of the leftmost of them
FirstNumber(s) ==
    (CHOOSE pv \in Numbers(s) : \A other \in Numbers(s) : pv[1] <= other[1])[2]

\* the maximal runs of digits of s, as <<first, last>> positions
DigitRuns(s) ==
    {r \in (1..Len(s)) \X (1..Len(s)) :
        /\ r[1] <= r[2]
        /\ \A k \in r[1]..r[2] : IsDigit(s[k])
        /\ ~DigitAt(s, r[1] - 1) /\ ~DigitAt(s, r[2] + 1)}

\* the line is a voter-link line: it holds [<name>](https://vk.com/<path>)
HoldsVoterLink(l) ==
    \E a \in 1..Len(l), b \in 1..Len(l), c \in 1..Len(l) :
        /\ a + 1 < b /\ b + Len(LinkHead) < c
        /\ l[a] = "[" /\ l[c] = ")"
        /\ \A k \in (a + 1)..(b - 1) : l[k] # "]"
        /\ MatchAt(l, LinkHead, b)
        /\ \A k \in (b + Len(LinkHead))..(c - 1) : l[k] # ")"

\* the phrases ph for which the line starts with [ph](
LeadingPhrases(l) ==
    {ph \in {SubSeq(l, 2, n) : n \in 2..Len(l)} :
        /\ \A k \in 1..Len(ph) : ph[k] # "]"
        /\ StartsWith(l, <<"[">> \o ph \o <<"]", "(">>)}

ScanOver == pc \in {"norm", "done", "error"}

(***************************************************************************)
(* C1.  Layout-A scan: at cursor i, if line i matches the header pattern   *)
(* and line i+1 exists, line i+1 is the comment; exactly one record (name, *)
(* first number from 1 to 99 written in the comment, bracketed date) is    *)
(* appended if the comment holds such a number, none otherwise, and the    *)
(* cursor becomes i+2; in every other case no record is appended and the   *)
(* cursor becomes i+1.                                                     *)
(***************************************************************************)
C1_LayoutAStep ==
    [][(prog = "tg" /\ pc = "scan" /\ pc' = "scan") =>
        LET l == Strip(file[i + 1])
        IN  IF HeaderNames(l) # {} /\ i + 2 <= Len(file)
            THEN LET c == Strip(file[i + 2])
                     q == Max(HeaderNames(l))
                 IN  /\ i' = i + 2
                     /\ IF Numbers(c) # {}
                        THEN records' = Append(records,
                                 [name |-> SubSeq(l, 1, q),
                                  num |-> FirstNumber(c),
                                  raw |-> SubSeq(l, q + 4, Len(l) - 1)])
                        ELSE records' = records
            ELSE i' = i + 1 /\ records' = records]_vars

\* the two lines of the example have been scanned
C1_Witness ==
    /\ prog = "tg" /\ pc = "scan" /\ i = 2
    /\ file = << <<"A","l","i","c","e",","," ","[","0","1",".","0","2",".","2","0","2","4"," ","1","0",":","0","0","]">>,
                 <<"_ya"," ","_z","_a"," ","_u","_ch","_a","_s","_t","_n","_i","_k","_a"," ","7">> >>
    /\ records = <<[name |-> <<"A", "l", "i", "c", "e">>,
                    num |-> 7,
                    raw |-> <<"0","1",".","0","2",".","2","0","2","4"," ","1","0",":","0","0">>]>>

(***************************************************************************)
(* C2.  Layout-B scan of parser-vk.py: when the comment of a voter holds   *)
(* no number, no record is emitted, the outer scan resumes right after the *)
(* comment line, and no later voter is skipped by that: the cursor does    *)
(* not jump over a voter-link line that has a comment with a number.       *)
(***************************************************************************)
\* blank, or starting with ![ or with [](
IsFiller(l) ==
    Strip(l) = <<>> \/ StartsWith(l, <<"!", "[">>) \/ StartsWith(l, <<"[", "]", "(">>)

\* line v (0-based) is a voter-link line and the first line after it that is
\* no filler holds a number
VoterWithNumber(v) ==
    /\ HoldsVoterLink(Strip(file[v + 1]))
    /\ \E c \in (v + 1)..(Len(file) - 1) :
           /\ ~IsFiller(file[c + 1])
           /\ \A k \in (v + 1)..(c - 1) : IsFiller(file[k + 1])
           /\ Numbers(Strip(file[c + 1])) # {}

C2_AbandonSkipsNoVoter ==
    [][(prog = "vk" /\ pc = "skip" /\ pc' = "scan" /\ j < Len(file)
        /\ Numbers(Strip(file[j + 1])) = {}) =>
            /\ records' = records
            /\ i' = j + 1
            /\ \A v \in (i + 1)..(i' - 1) : ~VoterWithNumber(v)]_vars

(***************************************************************************)
(* C3.  Layout-B date lookup of parser-vk.py: the record emitted for the   *)
(* comment at line j has the raw date given by the first line k > j that   *)
(* holds the marker: the phrase leading line k+2 if that line exists and   *)
(* starts with [phrase](, the empty string otherwise or if there is no     *)
(* marker; the record is emitted whenever the comment holds a number, and  *)
(* the outer cursor resumes at j+1.                                        *)
(***************************************************************************)
C3_DateLookup ==
    [][(prog = "vk" /\ pc = "skip" /\ pc' = "scan" /\ j < Len(file)
        /\ Numbers(Strip(file[j + 1])) # {}) =>
            LET markers == {k \in (j + 1)..(Len(file) - 1) : Contains(file[k + 1], show_votes_marker)}
                dateline == IF markers # {} /\ Min(markers) + 2 < Len(file)
                            THEN Strip(file[Min(markers) + 3]) ELSE <<>>
                expected == IF LeadingPhrases(dateline) # {}
                            THEN CHOOSE ph \in LeadingPhrases(dateline) : TRUE
                            ELSE <<>>
            IN  /\ Len(records') = Len(records) + 1
                /\ records'[Len(records')].raw = expected
                /\ i' = j + 1]_vars

\* a record whose date was found two lines after the marker
C3_Witness ==
    /\ prog = "vk" /\ pc = "scan" /\ i = 2
    /\ Len(file) = 5 /\ Contains(file[3], show_votes_marker)
    /\ Len(records) = 1
    /\ records[1].raw = <<"1","5"," ","_m","_a","_r"," ","_v"," ","1","0",":","0","0">>

(***************************************************************************)
(* C4.  In every record, participant_number is from 1 to 99 and is the     *)
(* first number in the comment written as a run of one or two digits: a    *)
(* lone "0" and runs of three or more digits do not count, and no number   *)
(* is cut out of such a run.                                               *)
(***************************************************************************)
C4_NumberIsAWholeRun ==
    [][(prog = "tg" /\ pc = "scan" /\ pc' = "scan" /\ Len(records') > Len(records)) =>
        LET c == Strip(file[i + 2])
            short == {r \in DigitRuns(c) : r[2] - r[1] <= 1 /\ int(SubSeq(c, r[1], r[2])) >= 1}
        IN  /\ records'[Len(records')].num \in 1..99
            /\ short # {}
            /\ \E r \in short :
                   /\ \A o \in short : r[1] <= o[1]
                   /\ records'[Len(records')].num = int(SubSeq(c, r[1], r[2]))]_vars

(***************************************************************************)
(* C5.  A transcript in which no candidate yields a record makes           *)
(* parse_votes complete normally with an empty sequence of records: no     *)
(* exception is raised.                                                    *)
(***************************************************************************)
C5_NoRecordsIsNoError ==
    (prog \in {"tg", "vk"} /\ ScanOver /\ records = <<>>) => (pc # "error" /\ err = "")

(***************************************************************************)
(* C6.  parse_date of parser-tg.py on an input that begins with the        *)
(* absolute form.  As claimed: the result is the input, unchanged, or a    *)
(* hard failure.                                                           *)
(***************************************************************************)
C6_AbsReturnedUnchanged ==
    (prog = "tg" /\ Len(normed) = 1) => normed[1] = records[1].raw

\* the fields of an input that begins with the absolute form, as written
AbsFields(s) ==
    LET w == Min({n \in 1..(Len(s) - 11) : ~IsSpace(s[11 + n])})   \* width of the separator
        c == Min({n \in 1..Len(s) : s[n] = ":"})
    IN  [dd |-> SubSeq(s, 1, 2), mo |-> SubSeq(s, 4, 5), yyyy |-> SubSeq(s, 7, 10),
         hh |-> SubSeq(s, 11 + w, c - 1), mi |-> SubSeq(s, c + 1, c + 2)]

\* without its leading zeros
RECURSIVE Unpadded(_)
Unpadded(s) == IF Len(s) > 1 /\ Head(s) = "0" THEN Unpadded(Tail(s)) ELSE s

\* C6, amended: the result is a hard failure (ValueError) when the five
\* numbers are no calendar date and time, and otherwise the canonical
\* rendering of exactly those numbers: day, month and minute as written, the
\* year as strftime renders it, one space, the hour padded to two digits;
\* surrounding whitespace and trailing text are dropped
C6_AbsCanonicalOrFailure ==
    (prog = "tg" /\ (Len(normed) = 1 \/ pc = "error")) =>
        LET f == AbsFields(Strip(records[1].raw))
            valid == /\ int(f.yyyy) \in 1..9999
                     /\ int(f.mo) \in 1..12
                     /\ int(f.dd) \in 1..DaysInMonth(int(f.yyyy), int(f.mo))
                     /\ int(f.hh) \in 0..23
                     /\ int(f.mi) \in 0..59
        IN  IF valid
            THEN /\ err = ""
                 /\ normed[1] = f.dd \o <<".">> \o f.mo \o <<".">>
                                \o (IF ypad THEN f.yyyy ELSE Unpadded(f.yyyy))
                                \o <<" ">> \o (IF Len(f.hh) = 1 THEN <<"0">> \o f.hh ELSE f.hh)
                                \o <<":">> \o f.mi
            ELSE pc = "error" /\ err = "ValueError" /\ normed = <<>>

\* an input with a one-digit hour and trailing text has been normalized
C6_Witness ==
    /\ prog = "tg" /\ Len(normed) = 1
    /\ records[1].raw = <<"0","1",".","0","2",".","2","0","2","4"," ","9",":","0","5"," ","x">>
    /\ normed[1] = <<"0","1",".","0","2",".","2","0","2","4"," ","0","9",":","0","5">>

(***************************************************************************)
(* C7.  Extraction of one candidate block never affects another: a voter-  *)
(* link line is never consumed as the comment of the preceding voter, and  *)
(* the raw date of a record is never taken from a line of a later voter's  *)
(* block (a line at or after the next voter-link line).                    *)
(***************************************************************************)
C7_BlocksAreIndependent ==
    [][(prog = "vk" /\ pc = "skip" /\ pc' = "scan" /\ j < Len(file)) =>
        LET later == {v \in (i + 1)..(Len(file) - 1) : HoldsVoterLink(Strip(file[v + 1]))}
            markers == {k \in (j + 1)..(Len(file) - 1) : Contains(file[k + 1], show_votes_marker)}
        IN  /\ ~HoldsVoterLink(Strip(file[j + 1]))
            /\ (Len(records') > Len(records) /\ records'[Len(records')].raw # <<>>)
                   => \A v \in later : Min(markers) + 2 < v]_vars

(***************************************************************************)
(* C8.  All records of one run are normalized against one reference        *)
(* instant: two records with the same relative raw phrase, and the pair    *)
(* "dva chasa nazad" / "2 chasa nazad", receive the same normalized time.  *)
(***************************************************************************)
SameInstantPhrases(a, b) ==
    \/ a = b
    \/ {Strip(Lower(a)), Strip(Lower(b))} = {<<"_d","_v","_a"," ","_ch","_a","_s","_a"," ","_n","_a","_z","_a","_d">>,
                                             <<"2"," ","_ch","_a","_s","_a"," ","_n","_a","_z","_a","_d">>}

C8_OneReferenceInstant ==
    (prog = "vk" /\ pc = "done") =>
        \A a \in 1..Len(records), b \in 1..Len(records) :
            SameInstantPhrases(records[a].raw, records[b].raw) => normed[a] = normed[b]

(***************************************************************************)
(* C9.  Every scan terminates: the outer cursor strictly increases on      *)
(* every iteration of the outer loop, the inner cursors never move         *)
(* backwards, no cursor exceeds len(lines), and the scan ends exactly when *)
(* i reaches len(lines).                                                   *)
(***************************************************************************)
C9_CursorsInRange ==
    /\ i \in 0..Len(file) /\ j \in 0..Len(file)
    /\ ScanOver => i = Len(file)

C9_CursorsAdvance ==
    \* an iteration of parser-tg.py, or one of parser-vk.py that finds no voter
    /\ (pc = "scan" /\ pc' = "scan") => (i < Len(file) /\ i' > i)
    \* parser-vk.py: the comment cursor starts after i, and only grows
    /\ (pc = "scan" /\ pc' = "skip") => (i < Len(file) /\ i' = i /\ j' > i)
    /\ (pc = "skip" /\ pc' = "skip") => (i' = i /\ j' > j)
    \* parser-vk.py: the iteration ends, on each of its three paths
    /\ (pc = "skip" /\ pc' = "scan") => i' > i
    \* parser.py: the outer test and the inner loop each consume a line
    /\ (pc = "p_scan" /\ pc' \in {"p_scan", "p_block"}) => (i < Len(file) /\ i' > i)
    /\ (pc = "p_block" /\ pc' = "p_block") => i' > i
    /\ (pc = "p_block" /\ pc' = "p_scan") => i' = i
    \* a scan is left only with the cursor at the end, and the cursor stays there
    /\ (pc \in {"scan", "p_scan"} /\ pc' \notin {"scan", "skip", "p_scan", "p_block"})
           => i = Len(file)
    /\ (pc = "p_scan" /\ pc' = "scan") => i = Len(file)
    /\ ScanOver => i' = i

C9_ScansTerminate == C9_CursorsInRange /\ [][C9_CursorsAdvance /\ C9_CursorsInRange']_vars

\* parser.py and parser-vk.py have both scanned a transcript of maximal
\* length in which a voter was abandoned and another one recorded
C9_Witness ==
    /\ prog = "vk" /\ pc = "done" /\ i = Len(file)
    /\ Len(file) = MaxLinesB
    /\ Len(records) = 1 /\ Len(lrecords) = 2

(***************************************************************************)
(* C10.  The two Layout-B dialects differ only in the date line: on the    *)
(* same transcript parser-vk.py and parser.py emit the same sequence of    *)
(* (voter_name, participant_number) pairs.                                 *)
(***************************************************************************)
Pairs(rs) == [k \in 1..Len(rs) |-> <<rs[k].name, rs[k].num>>]

C10_SameVotersAndNumbers ==
    (prog = "vk" /\ ScanOver) => Pairs(records) = Pairs(lrecords)

====
